---- MODULE Spec2Model ----
(***************************************************************************)
(* CallbacksHandler (client/src/firebase/firestore/handler/                *)
(* callbacks-handler.ts): the subscription multiplexer that fans the       *)
(* snapshots of one Firestore watch per resource out to any number of      *)
(* registered callbacks.                                                   *)
(*                                                                         *)
(* A JavaScript Map is modelled as the sequence of its live entries in     *)
(* insertion order.  Map.prototype.forEach walks the live entry list by    *)
(* position, so a dispatch keeps a cursor `pos` (the number of live        *)
(* entries that lie before the cursor); deleting an entry that lies before *)
(* the cursor moves the cursor back by one, and entries appended while the *)
(* walk is running are reached by it.                                      *)
(*                                                                         *)
(* The code is synchronous and single-threaded: an add or remove call is   *)
(* one step.  A delivery is a sequence of steps, one per callback the      *)
(* forEach invokes, and while a callback is executing it may call add and  *)
(* remove for the resource it is registered for (at most MaxReentrant      *)
(* calls in one delivery).  The store delivers one snapshot at a time, and *)
(* only for watches that are open.                                         *)
(***************************************************************************)
EXTENDS Integers, Sequences, FiniteSets, TLC

\* ---------------------------------------------------------------- inputs
CollectionPaths == {"x", "x/y"}       \* collectionRef.path of document calls
DocumentIds     == {"y"}              \* documentId
QueryPaths      == {"x/y"}            \* collectionRef.path of collection calls
CallerIds       == {"a"}              \* callbackId only callers make up
NanoIds         == {"n"}              \* ids nanoid() hands out
Ids             == CallerIds \cup NanoIds
Funcs           == {"f", "g"}         \* callback functions
Snapshots       == {"S1", "S2"}       \* snapshots the store delivers
Undefined       == "undefined"        \* an omitted callbackId

\* a watch handle is named by its resource and a number; a number is taken
\* again only when nothing refers to the watch it stood for any more
Gens == {1, 2, 3, 4, 5, 6}

MaxCallbacks == 2     \* callbacks registered at one time, over all keys
MaxReentrant == 2     \* add/remove calls made by callbacks in one dispatch
MaxInFlight == 1      \* closed watches with a snapshot still to be handed over

VARIABLES
  callbacks,            \* Map<string, Callback>: document registry
  collectionCallbacks,  \* Map<string, CollectionCallback>: collection registry
  openWatches,          \* the store's watches that are opened and not closed
  dispatch,             \* the delivery handler that is running, if any
  invoked,              \* the invocations the running handler has made so far
  op,                   \* the add/remove call application code made last,
                        \* until the next delivery: arguments and outcome
  inFlight,             \* closed watches whose handler the store still
                        \* hands a snapshot to (none, by the store's contract)
  pending,              \* history: the registration a callback made last
                        \* during a dispatch, until the next snapshot
  twin                  \* history: the calls made for the document key that
                        \* are made for the collection key in turn

\* what is recorded of the history of a behaviour
ghost == <<pending, twin>>

\* what the surroundings of the handler class hold
aux == <<inFlight, ghost>>

vars ==
  <<callbacks, collectionCallbacks, openWatches, dispatch, invoked, op, aux>>

\* ------------------------------------------------------------- Map<K, V>
RECURSIVE MapIndex(_, _)
MapIndex(m, k) ==
  IF m = <<>> THEN 0
  ELSE IF m[Len(m)].id = k THEN Len(m)
  ELSE MapIndex(SubSeq(m, 1, Len(m) - 1), k)

MapHas(m, k) == \E i \in 1..Len(m) : m[i].id = k

MapGet(m, k) == m[MapIndex(m, k)].cb

\* a set that deletes an existing key first, so that it goes last as well
MapSet_MoveToEnd(m, k, v) ==
  Append(SelectSeq(m, LAMBDA e : e.id # k), [id |-> k, cb |-> v])

\* Map.set: an existing key keeps its position, a new key goes last
MapSet(m, k, v) ==
  IF MapHas(m, k)
  THEN [i \in 1..Len(m) |-> IF m[i].id = k THEN [id |-> k, cb |-> v] ELSE m[i]]
  ELSE Append(m, [id |-> k, cb |-> v])

\* a delete that misses the key and leaves the Map as it is
MapDelete_Misses(m, k) == m

MapDelete(m, k) == SelectSeq(m, LAMBDA e : e.id # k)

MapSize(m) == Len(m)

\* Map.set / Map.delete on the registry itself (key order is never read)
RegHas(reg, key) == key \in DOMAIN reg

RegSet(reg, key, entry) ==
  [k \in DOMAIN reg \cup {key} |-> IF k = key THEN entry ELSE reg[k]]

\* a delete that clears the registry
RegDelete_Clear(reg, key) == <<>>

RegDelete(reg, key) == [k \in DOMAIN reg \ {key} |-> reg[k]]

\* ------------------------------------------------------------------ keys
\* a key that joins path and id without the separator
DocumentKey_NoSeparator(path, documentId) == path \o documentId

\* const key = `${collectionRef.path}/${documentId}`
DocumentKey(path, documentId) == path \o "/" \o documentId

CollectionKey(path) == path

DocumentKeys == {DocumentKey(p, d) : p \in CollectionPaths, d \in DocumentIds}

CollectionKeys == {CollectionKey(p) : p \in QueryPaths}

\* ----------------------------------------------------------- remote store
Handle(path, key, n) == [path |-> path, key |-> key, n |-> n]

NoHandle == Handle("-", "-", 0)

\* onSnapshot(ref, handler): opens a watch and returns its unsubscribe
OnSnapshot(ws, h) == ws \cup {h}

\* unsubscribe(): closes the watch the handle stands for
Unsubscribe(ws, h) == ws \ {h}

\* ------------------------------------------------------------- dispatch
Idle ==
  [phase |-> "idle", path |-> "-", key |-> "-", h |-> NoHandle, snap |-> "-",
   pos |-> 0, nops |-> 0]

NoOp ==
  [kind |-> "none", path |-> "-", key |-> "-", id |-> "-", cb |-> "-",
   overwrite |-> FALSE, ret |-> "-", had |-> "-", opened |-> NoHandle,
   closed |-> NoHandle, undo |-> "-"]

NoPending ==
  [path |-> "-", key |-> "-", id |-> "-", cb |-> "-", fresh |-> FALSE,
   phase |-> "-"]

NoTwin == [turn |-> "-", script |-> <<>>, at |-> 0, late |-> FALSE]

Registry(path) == IF path = "doc" THEN callbacks ELSE collectionCallbacks

\* the callbacks registered at one time; when the calls made for a document
\* key are made for a collection key in turn, a registration made on both
\* sides counts once
TotalCallbacks ==
  LET RECURSIVE Sum(_, _)
      Sum(reg, ks) ==
        IF ks = {} THEN 0
        ELSE LET k == CHOOSE x \in ks : TRUE
             IN MapSize(reg[k].func) + Sum(reg, ks \ {k})
      docs == Sum(callbacks, DOMAIN callbacks)
      cols == Sum(collectionCallbacks, DOMAIN collectionCallbacks)
  IN IF twin.turn = "-" THEN docs + cols
     ELSE IF docs < cols THEN docs ELSE cols

\* a callback of the running dispatch is executing: calls made now are
\* calls made by that callback
InCallback == dispatch.phase = "running" /\ Len(invoked) > 0

\* an add/remove call is made by application code between deliveries, or by
\* the callback the running dispatch is executing, on the resource the
\* callback is registered for
CanCall(path, key) ==
  \/ dispatch.phase = "idle"
  \/ /\ InCallback
     /\ dispatch.nops < MaxReentrant
     /\ dispatch.path = path
     /\ dispatch.key = key

\* the Map the running forEach walks: the func of the entry it started on
\* (an entry that left its registry has an empty func and is unreachable)
Iterated ==
  LET reg == Registry(dispatch.path) IN
  IF RegHas(reg, dispatch.key) /\ reg[dispatch.key].unsubscribe = dispatch.h
  THEN reg[dispatch.key].func
  ELSE <<>>

\* the dispatch after an add call made from where CanCall holds
AfterCall ==
  IF InCallback THEN [dispatch EXCEPT !.nops = @ + 1] ELSE Idle

\* the dispatch after func.delete(id) on the entry `h` of registry `path`
AfterDelete(path, key, h, func, id) ==
  IF InCallback
  THEN IF /\ dispatch.path = path /\ dispatch.key = key /\ dispatch.h = h
          /\ MapHas(func, id) /\ MapIndex(func, id) <= dispatch.pos
       THEN [dispatch EXCEPT !.nops = @ + 1, !.pos = @ - 1]
       ELSE [dispatch EXCEPT !.nops = @ + 1]
  ELSE Idle

AfterInvoked == IF InCallback THEN invoked ELSE <<>>

\* the handle of the watch the next onSnapshot call opens: one that no open
\* watch, no entry, no running handler and no recorded call refers to
ReferencedHandles ==
  openWatches
    \cup {callbacks[k].unsubscribe : k \in DOMAIN callbacks}
    \cup {collectionCallbacks[k].unsubscribe : k \in DOMAIN collectionCallbacks}
    \cup {dispatch.h, op.opened, op.closed}
    \cup inFlight

NewHandle(path, key) ==
  LET free == {n \in Gens : Handle(path, key, n) \notin ReferencedHandles}
  IN Handle(path, key, CHOOSE n \in free : \A m \in free : n <= m)

\* callbackId ?? nanoid(): the ids nanoid() can return are the ones no
\* registration uses
UsedIds ==
  UNION {{callbacks[k].func[i].id : i \in 1..Len(callbacks[k].func)}
           : k \in DOMAIN callbacks}
  \cup
  UNION {{collectionCallbacks[k].func[i].id
            : i \in 1..Len(collectionCallbacks[k].func)}
           : k \in DOMAIN collectionCallbacks}

Nanoid == NanoIds \ UsedIds

CbIds(callbackId) == IF callbackId = Undefined THEN Nanoid ELSE {callbackId}

\* what the call finds under (key, id) when it starts
Had(reg, key, id) ==
  IF ~RegHas(reg, key) THEN "nokey"
  ELSE IF MapHas(reg[key].func, id) THEN "id" ELSE "noid"

\* the record of an add call made by application code
AddOp(path, key, reg, callback, callbackId, overwrite, cbId, opened) ==
  IF InCallback THEN op
  ELSE [kind |-> "add", path |-> path, key |-> key, id |-> callbackId,
        cb |-> callback, overwrite |-> overwrite, ret |-> cbId,
        had |-> Had(reg, key, cbId), opened |-> opened, closed |-> NoHandle,
        undo |-> "-"]

\* the record of a remove call made by application code; undo tells what the
\* add call right before it did, when this call removes the id that call
\* returned for the same resource
RemoveOp(path, key, reg, callbackId, closed) ==
  IF InCallback THEN op
  ELSE [kind |-> "remove", path |-> path, key |-> key, id |-> callbackId,
        cb |-> "-", overwrite |-> FALSE, ret |-> "-",
        had |-> Had(reg, key, callbackId), opened |-> NoHandle,
        closed |-> closed,
        undo |-> IF op.kind = "add" /\ op.path = path /\ op.key = key
                      /\ op.ret = callbackId
                 THEN IF op.had # "id" THEN "new"
                      ELSE IF op.overwrite THEN "replaced" ELSE "kept"
                 ELSE "-"]

\* a register call that does not look the entry up and always creates one
NeedsDocumentEntry_Always(reg, key) == TRUE

\* a remove call that never reclaims the entry
DocumentEntryEmpty_Never(func) == FALSE

\* a register call that also creates an entry when one callback is left
NeedsDocumentEntry_LastLeft(reg, key) ==
  ~RegHas(reg, key) \/ MapSize(reg[key].func) <= 1

\* ------------------------------------------------------- document path
\* this.callbacks.get(key) || this.createDocumentCallbackEntry(...):
\* whether addCallback has to create the entry
NeedsDocumentEntry(reg, key) == ~RegHas(reg, key)

createDocumentCallbackEntry(reg, key, h) ==
  RegSet(reg, key, [func |-> <<>>, unsubscribe |-> h])

\* a register call that stores only when the overwrite flag is set
SetCallback_OnlyOverwrite(func, cbId, callback, overwrite) ==
  IF overwrite THEN MapSet(func, cbId, callback) ELSE func

\* a register call that ignores the overwrite flag and always stores
SetCallback_Always(func, cbId, callback, overwrite) ==
  MapSet(func, cbId, callback)

\* if (overwrite) func.set(id, cb) else if (!func.has(id)) func.set(id, cb)
SetCallback(func, cbId, callback, overwrite) ==
  IF overwrite THEN MapSet(func, cbId, callback)
  ELSE IF ~MapHas(func, cbId) THEN MapSet(func, cbId, callback)
  ELSE func

addCallback(path, documentId, callback, callbackId, overwrite) ==
  LET key == DocumentKey(path, documentId)
      create == NeedsDocumentEntry(callbacks, key)
      h == NewHandle("doc", key)
      reg == IF create THEN createDocumentCallbackEntry(callbacks, key, h)
             ELSE callbacks
  IN
  /\ CanCall("doc", key)
  /\ \E cbId \in CbIds(callbackId) :
       LET func == SetCallback(reg[key].func, cbId, callback, overwrite) IN
       /\ MapSize(func) > MapSize(reg[key].func) => TotalCallbacks < MaxCallbacks
       /\ callbacks' = RegSet(reg, key, [reg[key] EXCEPT !.func = func])
       /\ op' = AddOp("doc", key, callbacks, callback, callbackId, overwrite,
                      cbId, IF create THEN h ELSE NoHandle)
  /\ openWatches' = IF create THEN OnSnapshot(openWatches, h) ELSE openWatches
  /\ dispatch' = AfterCall
  /\ invoked' = AfterInvoked
  /\ UNCHANGED collectionCallbacks

\* a remove call that reclaims the entry whatever is left in it
DocumentEntryEmpty_Always(func) == TRUE

\* if (callbackEntry.func.size === 0): the entry lost its last callback
DocumentEntryEmpty(func) == MapSize(func) = 0

\* a remove call that closes every watch whose key is the same string
CloseDocumentWatch_ByKey(ws, h) == {w \in ws : w.key # h.key}

\* callbackEntry.unsubscribe?.()
CloseDocumentWatch(ws, h) == Unsubscribe(ws, h)

removeCallback(path, documentId, callbackId) ==
  LET key == DocumentKey(path, documentId)
      present == RegHas(callbacks, key)
      func == IF present THEN MapDelete(callbacks[key].func, callbackId)
              ELSE <<>>
      last == present /\ DocumentEntryEmpty(func)
      h == IF present THEN callbacks[key].unsubscribe ELSE NoHandle
  IN
  /\ CanCall("doc", key)
  /\ callbacks' =
       IF ~present THEN callbacks
       ELSE IF last THEN RegDelete(callbacks, key)
       ELSE RegSet(callbacks, key, [callbacks[key] EXCEPT !.func = func])
  /\ openWatches' = IF last THEN CloseDocumentWatch(openWatches, h)
                    ELSE openWatches
  /\ dispatch' =
       IF present
       THEN AfterDelete("doc", key, h, callbacks[key].func, callbackId)
       ELSE AfterCall
  /\ invoked' = AfterInvoked
  /\ op' = RemoveOp("doc", key, callbacks, callbackId,
                    IF last THEN h ELSE NoHandle)
  /\ UNCHANGED collectionCallbacks

\* a handler that looks the entry up under a key the registry does not use
DocumentHandlerEntry_Missing(w) == NoHandle

\* the handler createDocumentCallbackEntry gives to onSnapshot:
\* this.callbacks.get(key)?.func.forEach(...) looks the entry up on delivery
DocumentHandlerEntry(w) ==
  IF RegHas(callbacks, w.key) THEN callbacks[w.key].unsubscribe ELSE NoHandle

DocumentSnapshotHandler(w, snap) ==
  /\ dispatch.phase = "idle"
  /\ w \in openWatches
  /\ w.path = "doc"
  /\ dispatch' = [phase |-> "running", path |-> "doc", key |-> w.key,
                  h |-> DocumentHandlerEntry(w), snap |-> snap, pos |-> 0,
                  nops |-> 0]
  /\ invoked' = <<>>
  /\ op' = NoOp
  /\ UNCHANGED <<callbacks, collectionCallbacks, openWatches>>

\* ------------------------------------------------------ collection path
\* a register call that creates an entry and opens a watch every time
NeedsCollectionEntry_Always(reg, key) == TRUE

\* let colCallback = this.collectionCallbacks.get(key); if (!colCallback)
NeedsCollectionEntry(reg, key) == ~RegHas(reg, key)

\* an entry whose handle is attached later: the call returns before the
\* handle is recorded
createCollectionCallbackEntry_Unattached(reg, key, h) ==
  RegSet(reg, key, [func |-> <<>>, unsubscribe |-> NoHandle])

\* colCallback = { func: new Map() }; colCallback.unsubscribe = unsubscribe;
\* this.collectionCallbacks.set(key, colCallback)
createCollectionCallbackEntry(reg, key, h) ==
  RegSet(reg, key, [func |-> <<>>, unsubscribe |-> h])

\* a register call that stores the callback only when overwrite is set
SetCollectionCallback_OnlyOverwrite(func, cbId, callback, overwrite) ==
  IF overwrite THEN MapSet(func, cbId, callback) ELSE func

\* if (overwrite) func.set(id, cb) else if (!func.has(id)) func.set(id, cb)
SetCollectionCallback(func, cbId, callback, overwrite) ==
  IF overwrite THEN MapSet(func, cbId, callback)
  ELSE IF ~MapHas(func, cbId) THEN MapSet(func, cbId, callback)
  ELSE func

addCollectionCallback(path, callback, callbackId, overwrite) ==
  LET key == CollectionKey(path)
      create == NeedsCollectionEntry(collectionCallbacks, key)
      h == NewHandle("col", key)
      reg == IF create
             THEN createCollectionCallbackEntry(collectionCallbacks, key, h)
             ELSE collectionCallbacks
  IN
  /\ CanCall("col", key)
  /\ \E cbId \in CbIds(callbackId) :
       LET func == SetCollectionCallback(reg[key].func, cbId, callback,
                                         overwrite) IN
       /\ MapSize(func) > MapSize(reg[key].func) => TotalCallbacks < MaxCallbacks
       /\ collectionCallbacks' =
            RegSet(reg, key, [reg[key] EXCEPT !.func = func])
       /\ op' = AddOp("col", key, collectionCallbacks, callback, callbackId,
                      overwrite, cbId, IF create THEN h ELSE NoHandle)
  /\ openWatches' = IF create THEN OnSnapshot(openWatches, h) ELSE openWatches
  /\ dispatch' = AfterCall
  /\ invoked' = AfterInvoked
  /\ UNCHANGED callbacks

\* a remove call that reclaims the entry while one callback is left
CollectionEntryEmpty_OffByOne(func) == MapSize(func) <= 1

\* if (colCallback.func.size === 0)
CollectionEntryEmpty(func) == MapSize(func) = 0

\* a remove call that drops the entry and leaves its watch open
CloseCollectionWatch_Keep(ws, h) == ws

\* colCallback.unsubscribe?.()
CloseCollectionWatch(ws, h) == Unsubscribe(ws, h)

removeCollectionCallback(path, callbackId) ==
  LET key == CollectionKey(path)
      present == RegHas(collectionCallbacks, key)
      func == IF present
              THEN MapDelete(collectionCallbacks[key].func, callbackId)
              ELSE <<>>
      last == present /\ CollectionEntryEmpty(func)
      h == IF present THEN collectionCallbacks[key].unsubscribe ELSE NoHandle
  IN
  /\ CanCall("col", key)
  /\ collectionCallbacks' =
       IF ~present THEN collectionCallbacks
       ELSE IF last THEN RegDelete(collectionCallbacks, key)
       ELSE RegSet(collectionCallbacks, key,
                   [collectionCallbacks[key] EXCEPT !.func = func])
  /\ openWatches' = IF last THEN CloseCollectionWatch(openWatches, h)
                    ELSE openWatches
  /\ dispatch' =
       IF present
       THEN AfterDelete("col", key, h, collectionCallbacks[key].func,
                        callbackId)
       ELSE AfterCall
  /\ invoked' = AfterInvoked
  /\ op' = RemoveOp("col", key, collectionCallbacks, callbackId,
                    IF last THEN h ELSE NoHandle)
  /\ UNCHANGED callbacks

\* the handler addCollectionCallback gives to onSnapshot:
\* colCallback!.func.forEach(...) walks the entry the handler was made with
CollectionHandlerEntry(w) == w

CollectionSnapshotHandler(w, snap) ==
  /\ dispatch.phase = "idle"
  /\ w \in openWatches
  /\ w.path = "col"
  /\ dispatch' = [phase |-> "running", path |-> "col", key |-> w.key,
                  h |-> CollectionHandlerEntry(w), snap |-> snap, pos |-> 0,
                  nops |-> 0]
  /\ invoked' = <<>>
  /\ op' = NoOp
  /\ UNCHANGED <<callbacks, collectionCallbacks, openWatches>>

\* --------------------------------------------------- Map.prototype.forEach
\* (cb) => cb(snapshot): what the handler records of one invocation
Invocation(entry, snap) == [id |-> entry.id, cb |-> entry.cb, snap |-> snap]

\* one step of func.forEach((cb) => cb(snapshot)): the running callback
\* returns and the next live entry is invoked, or the walk is over and the
\* handler returns
ForEachStep ==
  /\ dispatch.phase = "running"
  /\ IF dispatch.pos < MapSize(Iterated)
     THEN /\ invoked' = Append(invoked,
                               Invocation(Iterated[dispatch.pos + 1],
                                          dispatch.snap))
          /\ dispatch' = [dispatch EXCEPT !.pos = @ + 1]
     ELSE /\ invoked' = <<>>
          /\ dispatch' = Idle
  /\ UNCHANGED <<callbacks, collectionCallbacks, openWatches, op>>

\* ------------------------------------------------------------ behaviours
Init ==
  /\ callbacks = <<>>
  /\ collectionCallbacks = <<>>
  /\ openWatches = {}
  /\ dispatch = Idle
  /\ invoked = <<>>
  /\ op = NoOp
  /\ inFlight = {}
  /\ pending = NoPending
  /\ twin = NoTwin

Next ==
  \/ \E p \in CollectionPaths, d \in DocumentIds, f \in Funcs,
        id \in Ids \cup {Undefined}, ow \in BOOLEAN :
       addCallback(p, d, f, id, ow) /\ UNCHANGED aux
  \/ \E p \in CollectionPaths, d \in DocumentIds, id \in Ids :
       removeCallback(p, d, id) /\ UNCHANGED aux
  \/ \E p \in QueryPaths, f \in Funcs, id \in Ids \cup {Undefined},
        ow \in BOOLEAN :
       addCollectionCallback(p, f, id, ow) /\ UNCHANGED aux
  \/ \E p \in QueryPaths, id \in Ids :
       removeCollectionCallback(p, id) /\ UNCHANGED aux
  \/ \E w \in openWatches, s \in Snapshots :
       DocumentSnapshotHandler(w, s) /\ UNCHANGED aux
  \/ \E w \in openWatches, s \in Snapshots :
       CollectionSnapshotHandler(w, s) /\ UNCHANGED aux
  \/ ForEachStep /\ UNCHANGED aux

Spec == Init /\ [][Next]_vars

\* ---------------------------------------------------------------- claims
Resources ==
  {<<"doc", k>> : k \in DocumentKeys} \cup {<<"col", k>> : k \in CollectionKeys}

WatchesOf(path, key) == {h \in openWatches : h.path = path /\ h.key = key}

WatchesOfNext(path, key) == {h \in openWatches' : h.path = path /\ h.key = key}

RegistryNext(path) == IF path = "doc" THEN callbacks' ELSE collectionCallbacks'

\* the callback mapping of a resource, empty when it has no entry
FuncOf(path, key) ==
  IF RegHas(Registry(path), key) THEN Registry(path)[key].func ELSE <<>>

FuncOfNext(path, key) ==
  IF RegHas(RegistryNext(path), key) THEN RegistryNext(path)[key].func ELSE <<>>

\* C1 (at-most-one-watch): in every state, for every document key and every
\* collection key, at most one watch that was opened for the key is not yet
\* closed.
C1_AtMostOneWatch ==
  \A r \in Resources : Cardinality(WatchesOf(r[1], r[2])) <= 1

\* two callbacks are registered under one document key and one watch is open
C1_Witness ==
  \E k \in DOMAIN callbacks :
    /\ MapSize(callbacks[k].func) = 2
    /\ Cardinality(WatchesOf("doc", k)) = 1

\* C2 (registry invariant): in every state, a key has an entry exactly when
\* it has at least one callback and exactly when a watch for it is open and
\* recorded in the entry: every entry holds a callback and the handle of an
\* open watch of its own key, and every open watch is the one recorded in
\* the entry of its key.
C2_RegistryInvariant ==
  /\ \A r \in Resources :
       RegHas(Registry(r[1]), r[2]) =>
         /\ MapSize(Registry(r[1])[r[2]].func) >= 1
         /\ Registry(r[1])[r[2]].unsubscribe \in WatchesOf(r[1], r[2])
  /\ \A h \in openWatches :
       /\ RegHas(Registry(h.path), h.key)
       /\ Registry(h.path)[h.key].unsubscribe = h

\* the last callback of a key was removed: its watch is closed and the entry
\* is gone, while another key keeps its entry and watch
C2_Witness ==
  /\ op.kind = "remove"
  /\ op.closed # NoHandle
  /\ op.closed \notin openWatches
  /\ ~RegHas(Registry(op.path), op.key)
  /\ openWatches # {}

\* the step is a call of application code (made between deliveries), or a
\* call made by the callback the running dispatch is executing
AppCall == dispatch.phase = "idle" /\ dispatch'.phase = "idle"

CallbackCall == dispatch.phase = "running" /\ dispatch'.nops = dispatch.nops + 1

\* the step is an add call / a remove call for the resource
IsAdd(path, key) ==
  \/ AppCall /\ op'.kind = "add" /\ op'.path = path /\ op'.key = key
  \/ /\ CallbackCall /\ dispatch.path = path /\ dispatch.key = key
     /\ IF path = "doc"
        THEN \E p \in CollectionPaths, d \in DocumentIds :
               /\ DocumentKey(p, d) = key
               /\ \E f \in Funcs, id \in Ids \cup {Undefined}, ow \in BOOLEAN :
                    addCallback(p, d, f, id, ow)
        ELSE \E p \in QueryPaths :
               /\ CollectionKey(p) = key
               /\ \E f \in Funcs, id \in Ids \cup {Undefined}, ow \in BOOLEAN :
                    addCollectionCallback(p, f, id, ow)

IsRemove(path, key, id) ==
  \/ /\ AppCall /\ op'.kind = "remove" /\ op'.path = path /\ op'.key = key
     /\ op'.id = id
  \/ /\ CallbackCall /\ dispatch.path = path /\ dispatch.key = key
     /\ IF path = "doc"
        THEN \E p \in CollectionPaths, d \in DocumentIds :
               DocumentKey(p, d) = key /\ removeCallback(p, d, id)
        ELSE \E p \in QueryPaths :
               CollectionKey(p) = key /\ removeCollectionCallback(p, id)

\* C3 (lazy-open): a step opens a watch only if it is an add call for a key
\* without entry, and then it opens exactly one, the one the new entry
\* records; an add call for a key with an entry, a remove call, the start of
\* a delivery and a step of the dispatch open none.
C3_Step ==
  LET new == openWatches' \ openWatches IN
  /\ Cardinality(new) <= 1
  /\ \A h \in new :
       /\ ~RegHas(Registry(h.path), h.key)
       /\ RegistryNext(h.path)[h.key].unsubscribe = h
       /\ IsAdd(h.path, h.key)
  /\ \A r \in Resources :
       ~RegHas(Registry(r[1]), r[2]) /\ IsAdd(r[1], r[2])
         => Cardinality(new) = 1

C3_LazyOpen == [][C3_Step]_vars

\* a second id was registered for a key that had an entry: no watch was
\* opened by that call and the key still has the one watch
C3_Witness ==
  /\ op.kind = "add"
  /\ op.had = "noid"
  /\ op.opened = NoHandle
  /\ Cardinality(WatchesOf(op.path, op.key)) = 1
  /\ MapSize(FuncOf(op.path, op.key)) = 2

\* the running handler returns: its forEach has walked the whole mapping
Finishing == dispatch.phase = "running" /\ dispatch'.phase = "idle"

\* a mapping without the entry of one id, the other entries in their order
Without(func, id) == SelectSeq(func, LAMBDA e : e.id # id)

\* a delivery during which no callback registers or unregisters has invoked,
\* when its handler returns, the callbacks of the key's mapping, one
\* invocation per id, in the order of the mapping, with its snapshot
DeliveryInvokesMapping ==
  Finishing /\ dispatch.nops = 0 =>
    LET F == FuncOf(dispatch.path, dispatch.key) IN
    invoked = [i \in 1..Len(F) |->
                 [id |-> F[i].id, cb |-> F[i].cb, snap |-> dispatch.snap]]

\* C4 (eager-close): a remove call that removes the only callback left under
\* a key closes the key's watch and deletes the key's entry in the same
\* step, whether application code or a callback of a running dispatch makes
\* the call.
C4_Step ==
  \A r \in Resources, id \in Ids :
    LET F == FuncOf(r[1], r[2]) IN
    MapSize(F) = 1 /\ F[1].id = id /\ IsRemove(r[1], r[2], id) =>
      /\ ~RegHas(RegistryNext(r[1]), r[2])
      /\ Registry(r[1])[r[2]].unsubscribe \notin openWatches'
      /\ WatchesOfNext(r[1], r[2]) = {}

C4_EagerClose == [][C4_Step]_vars

\* a callback of a running dispatch removed the last callback of the key
\* being dispatched: the entry the handler walks is gone and its watch closed
C4_Witness ==
  /\ dispatch.phase = "running"
  /\ dispatch.nops = 1
  /\ dispatch.h # NoHandle
  /\ dispatch.h \notin openWatches
  /\ ~RegHas(Registry(dispatch.path), dispatch.key)

\* C5 (fan-out completeness): a delivery for a key during which no callback
\* registers or unregisters invokes every callback of the key's mapping
\* exactly once, with the delivered snapshot, in the order of the mapping;
\* that order is the order of registration: an add call leaves the ids that
\* are present where they are and puts a new id last.
C5_Step ==
  /\ DeliveryInvokesMapping
  /\ Finishing /\ dispatch.nops = 0 =>
       \A i, j \in 1..Len(invoked) : i # j => invoked[i].id # invoked[j].id
  /\ \A r \in Resources :
       LET F == FuncOf(r[1], r[2])
           G == FuncOfNext(r[1], r[2])
       IN \/ /\ Len(F) <= Len(G)
             /\ Len(G) <= Len(F) + 1
             /\ \A i \in 1..Len(F) : G[i].id = F[i].id
          \/ ~IsAdd(r[1], r[2])

C5_FanOut == [][C5_Step]_vars

\* both callbacks of a key have been invoked by a delivery during which
\* nothing was registered or unregistered
C5_Witness ==
  /\ dispatch.phase = "running"
  /\ dispatch.nops = 0
  /\ MapSize(FuncOf(dispatch.path, dispatch.key)) = 2
  /\ Len(invoked) = 2

\* C6 (overwrite semantics): an add call of application code under an id
\* that the key's mapping already holds leaves the mapped callback in place
\* when overwrite is false and puts the passed callback in its place when
\* overwrite is true; the number of callbacks, their order and the callbacks
\* of the other ids are unchanged, the mapped callback is the one a
\* delivery invokes for the id, and the call signals no error.
C6_Step ==
  /\ AppCall /\ op'.kind = "add" /\ op'.had = "id" =>
       LET F == FuncOf(op'.path, op'.key)
           G == FuncOfNext(op'.path, op'.key)
       IN /\ Len(G) = Len(F)
          /\ \A i \in 1..Len(F) :
               /\ G[i].id = F[i].id
               /\ G[i].cb = IF F[i].id # op'.ret THEN F[i].cb
                            ELSE IF op'.overwrite THEN op'.cb ELSE F[i].cb
  /\ DeliveryInvokesMapping

\* an add call under an id the mapping holds can always be made (it signals
\* no error)
C6_AlwaysCallable ==
  dispatch.phase = "idle" =>
    /\ \A p \in CollectionPaths, d \in DocumentIds, f \in Funcs, id \in Ids,
          ow \in BOOLEAN :
         MapHas(FuncOf("doc", DocumentKey(p, d)), id)
           => ENABLED addCallback(p, d, f, id, ow)
    /\ \A p \in QueryPaths, f \in Funcs, id \in Ids, ow \in BOOLEAN :
         MapHas(FuncOf("col", CollectionKey(p)), id)
           => ENABLED addCollectionCallback(p, f, id, ow)

C6_Overwrite == [][C6_Step]_vars /\ []C6_AlwaysCallable

\* under an id that maps to one callback the other callback was registered
\* with overwrite = false, and the id still maps to the first
C6_Witness ==
  /\ op.kind = "add"
  /\ op.had = "id"
  /\ ~op.overwrite
  /\ MapGet(FuncOf(op.path, op.key), op.ret) # op.cb

\* C7 as stated: a remove call of application code that follows an add call
\* for the same resource and passes the id that call returned removes the
\* callback passed to that add call, and nothing else.
C7_RemovesPassed ==
  LET F == FuncOf(op'.path, op'.key)
      G == FuncOfNext(op'.path, op'.key)
  IN /\ MapHas(F, op'.id)
     /\ MapGet(F, op'.id) = op.cb
     /\ G = Without(F, op'.id)

C7_Original ==
  [][AppCall /\ op'.kind = "remove" /\ op'.undo # "-" => C7_RemovesPassed]_vars

\* C7 (returned id), amended: the same, for add calls that found the id
\* absent from the key's mapping or were made with overwrite = true.
C7_ReturnedId ==
  [][AppCall /\ op'.kind = "remove" /\ op'.undo \in {"new", "replaced"}
       => C7_RemovesPassed]_vars

\* a registration made under a generated id next to another one was removed
\* through the returned id, and the other registration is still there
C7_Witness ==
  /\ op.kind = "remove"
  /\ op.undo = "new"
  /\ op.id \in NanoIds
  /\ MapSize(FuncOf(op.path, op.key)) = 1

\* C8 (no-op removal): a remove call for a key without entry, or for an id
\* the key's mapping does not hold, changes neither registry and opens and
\* closes no watch; and a remove call can always be made (it signals no
\* error) whatever the registries hold.
C8_Step ==
  \A r \in Resources, id \in Ids :
    \/ /\ callbacks' = callbacks
       /\ collectionCallbacks' = collectionCallbacks
       /\ openWatches' = openWatches
    \/ MapHas(FuncOf(r[1], r[2]), id)
    \/ ~IsRemove(r[1], r[2], id)

C8_AlwaysCallable ==
  dispatch.phase = "idle" =>
    /\ \A p \in CollectionPaths, d \in DocumentIds, id \in Ids :
         ENABLED removeCallback(p, d, id)
    /\ \A p \in QueryPaths, id \in Ids :
         ENABLED removeCollectionCallback(p, id)

C8_NoOpRemoval == [][C8_Step]_vars /\ []C8_AlwaysCallable

\* an id the mapping does not hold was removed from a key that has an entry
C8_Witness ==
  /\ op.kind = "remove"
  /\ op.had = "noid"
  /\ MapSize(FuncOf(op.path, op.key)) >= 1

\* the registry a step works on: that of the call, of the delivery that
\* starts, or of the dispatch that runs
StepPath ==
  IF dispatch.phase = "running" THEN dispatch.path
  ELSE IF dispatch'.phase = "running" THEN dispatch'.path
  ELSE op'.path

\* C9 (key isolation): a step of the document path (add call, remove call,
\* start or step of a document delivery) leaves the collection registry and
\* the collection watches as they are, and a step of the collection path
\* leaves the document registry and the document watches as they are.
C9_Step ==
  /\ StepPath = "doc" =>
       /\ collectionCallbacks' = collectionCallbacks
       /\ {h \in openWatches' : h.path = "col"}
            = {h \in openWatches : h.path = "col"}
  /\ StepPath = "col" =>
       /\ callbacks' = callbacks
       /\ {h \in openWatches' : h.path = "doc"}
            = {h \in openWatches : h.path = "doc"}

C9_KeyIsolation == [][C9_Step]_vars

\* the last document callback of a key was removed and its watch closed,
\* while the collection key with the same string keeps entry and watch
C9_Witness ==
  /\ op.kind = "remove"
  /\ op.path = "doc"
  /\ op.closed # NoHandle
  /\ RegHas(collectionCallbacks, op.key)
  /\ collectionCallbacks[op.key].unsubscribe \in openWatches

\* C10 (only the last removal closes): a step closes a watch only if it is a
\* remove call for the one id left in the mapping of the watch's key; a
\* remove call that leaves a callback keeps the entry's handle and every
\* open watch and takes only the removed id out of the mapping, and the
\* mapping that is left is what a delivery invokes.
C10_Step ==
  /\ \A h \in openWatches \ openWatches' :
       \E id \in Ids :
         /\ MapSize(FuncOf(h.path, h.key)) = 1
         /\ FuncOf(h.path, h.key)[1].id = id
         /\ Registry(h.path)[h.key].unsubscribe = h
         /\ IsRemove(h.path, h.key, id)
  /\ \A r \in Resources, id \in Ids :
       LET F == FuncOf(r[1], r[2]) IN
       MapHas(F, id) /\ MapSize(F) >= 2 /\ IsRemove(r[1], r[2], id) =>
         /\ openWatches' = openWatches
         /\ RegHas(RegistryNext(r[1]), r[2])
         /\ RegistryNext(r[1])[r[2]].unsubscribe
              = Registry(r[1])[r[2]].unsubscribe
         /\ FuncOfNext(r[1], r[2]) = Without(F, id)
  /\ DeliveryInvokesMapping

C10_OnlyLastCloses == [][C10_Step]_vars

\* one of two callbacks of a key was removed: the entry, its other callback
\* and its open watch are still there
C10_Witness ==
  /\ op.kind = "remove"
  /\ op.had = "id"
  /\ op.closed = NoHandle
  /\ MapSize(FuncOf(op.path, op.key)) = 1
  /\ Registry(op.path)[op.key].unsubscribe \in openWatches

\* ------------------------------------------------- document references
\* A Firestore reference is a list of path segments, none of them empty and
\* none holding a "/".  collectionRef.path is the segments joined by "/";
\* a documentId is a relative path, one segment or several.
CollectionRefs == {<<"x">>, <<"x", "y", "z">>}

RelativePaths == {<<"w">>, <<"y", "z", "w">>}

RECURSIVE PathOf(_)
PathOf(segments) ==
  IF Len(segments) = 1 THEN segments[1]
  ELSE PathOf(SubSeq(segments, 1, Len(segments) - 1)) \o "/"
         \o segments[Len(segments)]

\* doc(collectionRef, documentId): the document the watch is opened on
DocumentOf(collectionRef, relativePath) == collectionRef \o relativePath

\* the key addCallback and removeCallback compute for the pair
KeyOf(collectionRef, relativePath) ==
  DocumentKey(PathOf(collectionRef), PathOf(relativePath))

\* add and remove calls of application code for documents given by their
\* references
KeyNext ==
  \/ \E c \in CollectionRefs, r \in RelativePaths, f \in Funcs, id \in Ids,
        ow \in BOOLEAN :
       /\ dispatch.phase = "idle"
       /\ addCallback(PathOf(c), PathOf(r), f, id, ow)
       /\ UNCHANGED aux
  \/ \E c \in CollectionRefs, r \in RelativePaths, id \in Ids :
       /\ dispatch.phase = "idle"
       /\ removeCallback(PathOf(c), PathOf(r), id)
       /\ UNCHANGED aux

KeySpec == Init /\ [][KeyNext]_vars

\* C12 (document key uniqueness): two (collectionRef, documentId) pairs get
\* the same key exactly when they name the same document; an add call for a
\* pair finds the entry that a pair naming the same document has, opens no
\* second watch and puts its callback there, and it leaves the entry of
\* every pair naming another document as it is.
C12_SameKeySameDocument ==
  \A c1 \in CollectionRefs, r1 \in RelativePaths,
     c2 \in CollectionRefs, r2 \in RelativePaths :
    KeyOf(c1, r1) = KeyOf(c2, r2) <=> DocumentOf(c1, r1) = DocumentOf(c2, r2)

C12_Step ==
  \A c1 \in CollectionRefs, r1 \in RelativePaths :
    /\ /\ op'.kind = "add"
       /\ op'.key = KeyOf(c1, r1)
       /\ addCallback(PathOf(c1), PathOf(r1), op'.cb, op'.id, op'.overwrite)
       => \A c2 \in CollectionRefs, r2 \in RelativePaths :
            LET k2 == KeyOf(c2, r2) IN
            RegHas(callbacks, k2) =>
              IF DocumentOf(c1, r1) = DocumentOf(c2, r2)
              THEN /\ openWatches' = openWatches
                   /\ RegHas(callbacks', k2)
                   /\ callbacks'[k2].unsubscribe = callbacks[k2].unsubscribe
                   /\ MapHas(callbacks'[k2].func, op'.id)
              ELSE /\ RegHas(callbacks', k2)
                   /\ callbacks'[k2] = callbacks[k2]
    /\ /\ op'.kind = "remove"
       /\ op'.key = KeyOf(c1, r1)
       /\ removeCallback(PathOf(c1), PathOf(r1), op'.id)
       => \A c2 \in CollectionRefs, r2 \in RelativePaths :
            LET k2 == KeyOf(c2, r2) IN
            RegHas(callbacks, k2) /\ DocumentOf(c1, r1) # DocumentOf(c2, r2) =>
              /\ RegHas(callbacks', k2)
              /\ callbacks'[k2] = callbacks[k2]

C12_KeyUniqueness == []C12_SameKeySameDocument /\ [][C12_Step]_vars

\* the document that two different pairs name has one entry with two
\* callbacks and one watch
C12_Witness ==
  LET k == KeyOf(<<"x">>, <<"y", "z", "w">>) IN
  /\ k = KeyOf(<<"x", "y", "z">>, <<"w">>)
  /\ RegHas(callbacks, k)
  /\ MapSize(callbacks[k].func) = 2
  /\ Cardinality(WatchesOf("doc", k)) = 1
  /\ op.kind = "add" /\ op.key = k /\ op.had = "noid"

\* the step is an invocation made by the running forEach
Invoking == dispatch.phase = "running" /\ Len(invoked') = Len(invoked) + 1

\* C13 (exactly-once dispatch under re-entrancy): during the dispatch of one
\* snapshot no callback id is invoked more than once, whatever the callbacks
\* register or unregister meanwhile, and when the handler returns every id
\* that is registered in the entry it walked has been invoked.
C13_OncePerId ==
  \A i, j \in 1..Len(invoked) : i # j => invoked[i].id # invoked[j].id

C13_AllInvoked ==
  Finishing =>
    \A i \in 1..Len(Iterated) :
      \E j \in 1..Len(invoked) : invoked[j].id = Iterated[i].id

C13_ExactlyOnce == []C13_OncePerId /\ [][C13_AllInvoked]_vars

\* C14 (unregistered during dispatch): when a remove call returns, the id is
\* not in the key's mapping, whether application code or a callback of the
\* running dispatch made the call; an id that is not in the mapping comes
\* into it only by an add call; and every invocation a handler makes is of
\* an id that is in the mapping at that time, with the callback mapped to
\* it and the snapshot being dispatched.  So a callback that was
\* unregistered is invoked neither later in the same dispatch nor for a
\* later snapshot, unless its id is registered again.
C14_Step ==
  /\ Invoking =>
       LET e == invoked'[Len(invoked')]
           F == FuncOf(dispatch.path, dispatch.key)
       IN /\ MapHas(F, e.id)
          /\ MapGet(F, e.id) = e.cb
          /\ e.snap = dispatch.snap
  /\ \A r \in Resources, id \in Ids :
       /\ \/ ~MapHas(FuncOfNext(r[1], r[2]), id)
          \/ ~IsRemove(r[1], r[2], id)
       /\ \/ MapHas(FuncOf(r[1], r[2]), id)
          \/ ~MapHas(FuncOfNext(r[1], r[2]), id)
          \/ IsAdd(r[1], r[2])

C14_NotInvokedAfterRemoval == [][C14_Step]_vars

\* the callback that was invoked first has unregistered itself while the
\* dispatch is running, and another callback of the key is still to be
\* invoked
C14_Witness ==
  /\ dispatch.phase = "running"
  /\ dispatch.nops = 1
  /\ Len(invoked) = 1
  /\ MapSize(Iterated) = 1
  /\ ~MapHas(Iterated, invoked[1].id)
  /\ dispatch.pos = 0

\* the resource an add or remove call is made for
CallResource ==
  IF AppCall THEN <<op'.path, op'.key>> ELSE <<dispatch.path, dispatch.key>>

\* C16 (per-key frame, id reuse): an add or remove call for a key, made by
\* application code or by a callback of a running dispatch, leaves every
\* other key of either registry as it is: whether it has an entry, the
\* entry's mapping with its order, the entry's handle and the key's open
\* watches; this holds also when the id of the call is registered under
\* another key.
C16_Step ==
  AppCall \/ CallbackCall =>
    \A r \in Resources \ {CallResource} :
      /\ RegHas(RegistryNext(r[1]), r[2]) = RegHas(Registry(r[1]), r[2])
      /\ RegHas(Registry(r[1]), r[2]) =>
           RegistryNext(r[1])[r[2]] = Registry(r[1])[r[2]]
      /\ WatchesOfNext(r[1], r[2]) = WatchesOf(r[1], r[2])

C16_PerKeyFrame == [][C16_Step]_vars

\* an id registered under two document keys was removed from one of them,
\* whose entry is gone, and is still registered under the other
C16_Witness ==
  /\ op.kind = "remove"
  /\ op.path = "doc"
  /\ op.had = "id"
  /\ ~RegHas(callbacks, op.key)
  /\ \E k \in DOMAIN callbacks :
       /\ MapHas(callbacks[k].func, op.id)
       /\ callbacks[k].unsubscribe \in openWatches

\* C17 (registration is immediate): in every state between steps every
\* entry records the handle of a watch of its own key; when an add call
\* returns, the returned id is in the key's mapping, mapped to the passed
\* callback unless the id was there and overwrite is false, and the entry
\* records an open watch, the one the call opened if it opened one; a remove
\* call made right after an add call for the same key that removes the last
\* callback closes the handle the entry recorded.
C17_HandleRecorded ==
  \A r \in Resources :
    RegHas(Registry(r[1]), r[2]) =>
      LET h == Registry(r[1])[r[2]].unsubscribe IN
      /\ h # NoHandle
      /\ h.path = r[1] /\ h.key = r[2] /\ h.n \in Gens

C17_Step ==
  /\ AppCall /\ op'.kind = "add" =>
       LET G == FuncOfNext(op'.path, op'.key)
           h == RegistryNext(op'.path)[op'.key].unsubscribe
       IN /\ MapHas(G, op'.ret)
          /\ op'.had # "id" \/ op'.overwrite => MapGet(G, op'.ret) = op'.cb
          /\ h \in openWatches'
          /\ op'.opened # NoHandle =>
               h = op'.opened /\ op'.opened \notin openWatches
  /\ \A r \in Resources :
       \/ /\ RegHas(RegistryNext(r[1]), r[2])
          /\ RegistryNext(r[1])[r[2]].unsubscribe \in openWatches'
       \/ ~IsAdd(r[1], r[2])
  /\ /\ AppCall /\ op'.kind = "remove" /\ op.kind = "add"
     /\ op'.path = op.path /\ op'.key = op.key
     /\ MapSize(FuncOf(op.path, op.key)) = 1
     /\ FuncOf(op.path, op.key)[1].id = op'.id
     => /\ op'.closed = Registry(op.path)[op.key].unsubscribe
        /\ op'.closed \in openWatches
        /\ op'.closed \notin openWatches'
        /\ op.opened # NoHandle => op'.closed = op.opened

C17_Immediate == []C17_HandleRecorded /\ [][C17_Step]_vars

\* the callback an add call registered was unregistered by the next call,
\* which found the handle and closed the watch
C17_Witness ==
  /\ op.kind = "remove"
  /\ op.undo = "new"
  /\ op.closed # NoHandle
  /\ op.closed \notin openWatches
  /\ ~RegHas(Registry(op.path), op.key)

\* C18 (dispatch position): an add call with overwrite = true under an id
\* the mapping holds puts the passed callback at the position the id has and
\* leaves the other entries where they are; a remove call that leaves a
\* callback takes out only the id's entry, and an add call under that id
\* made right after it puts the id last, behind the entries that were left,
\* in their order; the order of the mapping is the order of dispatch.
C18_Step ==
  /\ AppCall /\ op'.kind = "add" /\ op'.had = "id" /\ op'.overwrite =>
       LET F == FuncOf(op'.path, op'.key)
           G == FuncOfNext(op'.path, op'.key)
       IN /\ Len(G) = Len(F)
          /\ MapIndex(G, op'.ret) = MapIndex(F, op'.ret)
          /\ \A i \in 1..Len(F) :
               G[i] = IF i = MapIndex(F, op'.ret)
                      THEN [id |-> op'.ret, cb |-> op'.cb] ELSE F[i]
  /\ AppCall /\ op'.kind = "remove" /\ op'.had = "id"
       /\ MapSize(FuncOf(op'.path, op'.key)) >= 2 =>
       FuncOfNext(op'.path, op'.key)
         = Without(FuncOf(op'.path, op'.key), op'.id)
  /\ /\ AppCall /\ op'.kind = "add" /\ op.kind = "remove" /\ op.had = "id"
     /\ op'.path = op.path /\ op'.key = op.key /\ op'.ret = op.id
     /\ RegHas(Registry(op.path), op.key)
     => FuncOfNext(op'.path, op'.key)
          = Append(FuncOf(op'.path, op'.key),
                   [id |-> op'.ret, cb |-> op'.cb])
  /\ DeliveryInvokesMapping

C18_DispatchPosition == [][C18_Step]_vars

\* the first of two ids was registered again with overwrite = true: it is
\* still first, with the new callback
C18_Witness ==
  /\ op.kind = "add"
  /\ op.had = "id"
  /\ op.overwrite
  /\ MapSize(FuncOf(op.path, op.key)) = 2
  /\ FuncOf(op.path, op.key)[1] = [id |-> op.ret, cb |-> op.cb]

\* ----------------------------------------------------------- watch failure
\* onSnapshot is called with a snapshot handler only (lines 43, 123): when
\* the store terminates a watch with a failure no code of the handler class
\* runs.  The store delivers no snapshot for a terminated watch, and its
\* unsubscribe function does nothing.
WatchFailure(w) ==
  /\ dispatch.phase = "idle"
  /\ w \in openWatches
  /\ openWatches' = openWatches \ {w}
  /\ op' = NoOp
  /\ UNCHANGED <<callbacks, collectionCallbacks, dispatch, invoked>>

FailNext ==
  \/ \E d \in DocumentIds, f \in Funcs, id \in Ids \cup {Undefined},
        ow \in BOOLEAN :
       addCallback("x", d, f, id, ow) /\ UNCHANGED aux
  \/ \E d \in DocumentIds, id \in Ids :
       removeCallback("x", d, id) /\ UNCHANGED aux
  \/ \E p \in QueryPaths, f \in Funcs, id \in Ids \cup {Undefined},
        ow \in BOOLEAN :
       addCollectionCallback(p, f, id, ow) /\ UNCHANGED aux
  \/ \E p \in QueryPaths, id \in Ids :
       removeCollectionCallback(p, id) /\ UNCHANGED aux
  \/ \E w \in openWatches, s \in Snapshots :
       DocumentSnapshotHandler(w, s) /\ UNCHANGED aux
  \/ \E w \in openWatches, s \in Snapshots :
       CollectionSnapshotHandler(w, s) /\ UNCHANGED aux
  \/ ForEachStep /\ UNCHANGED aux
  \/ \E w \in openWatches : WatchFailure(w) /\ UNCHANGED aux

FailSpec == Init /\ [][FailNext]_vars

\* the entry of the resource records a watch that is not open
Terminated(path, key) ==
  /\ RegHas(Registry(path), key)
  /\ Registry(path)[key].unsubscribe \notin openWatches

\* C20 (watch failure): the step in which the store terminates a watch
\* changes neither registry; while the entry of a terminated watch is in the
\* registry it keeps its handle, no step opens a watch for its key, no
\* delivery starts for its key, and calls change only its mapping; when the
\* entry is gone, the next add call for the key opens a new watch and
\* records it.
C20_Step ==
  /\ (\E w \in openWatches \ openWatches' :
        /\ RegHas(RegistryNext(w.path), w.key)
        /\ RegistryNext(w.path)[w.key].unsubscribe = w)
       => callbacks' = callbacks /\ collectionCallbacks' = collectionCallbacks
  /\ \A r \in Resources :
       Terminated(r[1], r[2]) =>
         /\ WatchesOfNext(r[1], r[2]) = {}
         /\ RegHas(RegistryNext(r[1]), r[2]) =>
              RegistryNext(r[1])[r[2]].unsubscribe
                = Registry(r[1])[r[2]].unsubscribe
         /\ ~(/\ dispatch'.phase = "running"
              /\ dispatch'.path = r[1] /\ dispatch'.key = r[2])
         /\ \/ RegHas(RegistryNext(r[1]), r[2])
            \/ \E id \in Ids :
                 /\ MapSize(FuncOf(r[1], r[2])) = 1
                 /\ FuncOf(r[1], r[2])[1].id = id
                 /\ IsRemove(r[1], r[2], id)
  /\ AppCall /\ op'.kind = "add" /\ op'.had = "nokey" =>
       /\ op'.opened \in openWatches' \ openWatches
       /\ RegistryNext(op'.path)[op'.key].unsubscribe = op'.opened

C20_OpenRecorded ==
  \A h \in openWatches :
    /\ RegHas(Registry(h.path), h.key)
    /\ Registry(h.path)[h.key].unsubscribe = h

C20_WatchFailure == []C20_OpenRecorded /\ [][C20_Step]_vars

\* the watch of a key was terminated and a second callback was registered
\* for the key afterwards: the entry holds both callbacks and its handle,
\* and no watch is open for the key
C20_Witness ==
  /\ op.kind = "add"
  /\ op.had = "noid"
  /\ op.opened = NoHandle
  /\ Terminated(op.path, op.key)
  /\ MapSize(FuncOf(op.path, op.key)) = 2
  /\ WatchesOf(op.path, op.key) = {}

\* ------------------------------------------------------- late deliveries
\* A store that does not keep its contract: a watch that is closed may have
\* a snapshot on its way, which is handed to the handler of the watch after
\* the close.  The handler is the closure onSnapshot was given.
StillInFlight ==
  \E late \in BOOLEAN :
    inFlight' = IF late /\ Cardinality(inFlight) < MaxInFlight
                THEN inFlight \cup (openWatches \ openWatches')
                ELSE inFlight

\* lines 43-45 run for a closed watch: the entry is looked up by key
LateDocumentSnapshotHandler(w, snap) ==
  /\ dispatch.phase = "idle"
  /\ w \in inFlight
  /\ w.path = "doc"
  /\ dispatch' = [phase |-> "running", path |-> "doc", key |-> w.key,
                  h |-> DocumentHandlerEntry(w), snap |-> snap, pos |-> 0,
                  nops |-> 0]
  /\ invoked' = <<>>
  /\ op' = NoOp
  /\ inFlight' = inFlight \ {w}
  /\ UNCHANGED <<callbacks, collectionCallbacks, openWatches>>

\* lines 123-125 run for a closed watch: the entry is the one of the closure
LateCollectionSnapshotHandler(w, snap) ==
  /\ dispatch.phase = "idle"
  /\ w \in inFlight
  /\ w.path = "col"
  /\ dispatch' = [phase |-> "running", path |-> "col", key |-> w.key,
                  h |-> CollectionHandlerEntry(w), snap |-> snap, pos |-> 0,
                  nops |-> 0]
  /\ invoked' = <<>>
  /\ op' = NoOp
  /\ inFlight' = inFlight \ {w}
  /\ UNCHANGED <<callbacks, collectionCallbacks, openWatches>>

LateNext ==
  \/ \E d \in DocumentIds, f \in Funcs, id \in Ids \cup {Undefined},
        ow \in BOOLEAN :
       addCallback("x", d, f, id, ow) /\ UNCHANGED aux
  \/ \E d \in DocumentIds, id \in Ids :
       removeCallback("x", d, id) /\ StillInFlight /\ UNCHANGED ghost
  \/ \E p \in QueryPaths, f \in Funcs, id \in Ids \cup {Undefined},
        ow \in BOOLEAN :
       addCollectionCallback(p, f, id, ow) /\ UNCHANGED aux
  \/ \E p \in QueryPaths, id \in Ids :
       removeCollectionCallback(p, id) /\ StillInFlight /\ UNCHANGED ghost
  \/ \E w \in openWatches, s \in Snapshots :
       DocumentSnapshotHandler(w, s) /\ UNCHANGED aux
  \/ \E w \in openWatches, s \in Snapshots :
       CollectionSnapshotHandler(w, s) /\ UNCHANGED aux
  \/ ForEachStep /\ UNCHANGED aux
  \/ \E w \in inFlight, s \in Snapshots :
       LateDocumentSnapshotHandler(w, s) /\ UNCHANGED ghost
  \/ \E w \in inFlight, s \in Snapshots :
       LateCollectionSnapshotHandler(w, s) /\ UNCHANGED ghost

LateSpec == Init /\ [][LateNext]_vars

\* the step hands a snapshot to the handler of a closed watch
LateStart ==
  /\ dispatch.phase = "idle"
  /\ dispatch'.phase = "running"
  /\ inFlight' # inFlight

\* C19 (no stale delivery): the handler of a closed watch that is handed a
\* snapshot invokes no callback (the Map its forEach walks is empty), on the
\* document path and on the collection path, also when the key was
\* registered again after the close.
C19_Step == LateStart => MapSize(Iterated') = 0

C19_NoStaleDelivery == [][C19_Step]_vars

\* what holds of the code: on the collection path, and on the document path
\* when the key has no entry at that time
C19_CollectionOnly ==
  [][LateStart /\ (dispatch'.path = "col"
                     \/ ~RegHas(callbacks, dispatch'.key))
       => MapSize(Iterated') = 0]_vars

\* ------------------------------------------- registration during dispatch
\* the registration an add call makes: func.set(id, cb) is reached when the
\* id is new to the key or overwrite is set
Registers(path, key, callbackId, overwrite) ==
  overwrite \/ ~MapHas(FuncOf(path, key), callbackId)

\* history of an add call: a registration a callback makes is recorded until
\* the next snapshot; a registration application code makes under the
\* recorded id replaces the recorded one
PendingAfterAdd(path, key, callback, callbackId, overwrite) ==
  pending' =
    IF ~Registers(path, key, callbackId, overwrite) THEN pending
    ELSE IF InCallback
    THEN [path |-> path, key |-> key, id |-> callbackId, cb |-> callback,
          fresh |-> ~RegHas(Registry(path), key), phase |-> "registered"]
    ELSE IF pending.path = path /\ pending.key = key /\ pending.id = callbackId
    THEN NoPending
    ELSE pending

\* history of a remove call: the recorded registration is unregistered
PendingAfterRemove(path, key, callbackId) ==
  pending' =
    IF pending.path = path /\ pending.key = key /\ pending.id = callbackId
    THEN NoPending
    ELSE pending

\* history of a delivery: the next snapshot for the recorded key arrives
PendingAtDelivery(w) ==
  pending' =
    IF pending.path = w.path /\ pending.key = w.key
         /\ pending.phase = "registered"
    THEN [pending EXCEPT !.phase = "delivering"]
    ELSE pending

\* history of a forEach step: the dispatch of the next snapshot returns
PendingAtEach ==
  pending' =
    IF pending.phase = "delivering" /\ dispatch.pos >= MapSize(Iterated)
    THEN NoPending
    ELSE pending

PendNext ==
  \/ \E d \in DocumentIds, f \in Funcs, id \in Ids, ow \in BOOLEAN :
       /\ addCallback("x", d, f, id, ow)
       /\ PendingAfterAdd("doc", DocumentKey("x", d), f, id, ow)
       /\ UNCHANGED <<inFlight, twin>>
  \/ \E d \in DocumentIds, id \in Ids :
       /\ removeCallback("x", d, id)
       /\ PendingAfterRemove("doc", DocumentKey("x", d), id)
       /\ UNCHANGED <<inFlight, twin>>
  \/ \E p \in QueryPaths, f \in Funcs, id \in Ids, ow \in BOOLEAN :
       /\ addCollectionCallback(p, f, id, ow)
       /\ PendingAfterAdd("col", CollectionKey(p), f, id, ow)
       /\ UNCHANGED <<inFlight, twin>>
  \/ \E p \in QueryPaths, id \in Ids :
       /\ removeCollectionCallback(p, id)
       /\ PendingAfterRemove("col", CollectionKey(p), id)
       /\ UNCHANGED <<inFlight, twin>>
  \/ \E w \in openWatches, s \in Snapshots :
       /\ DocumentSnapshotHandler(w, s)
       /\ PendingAtDelivery(w)
       /\ UNCHANGED <<inFlight, twin>>
  \/ \E w \in openWatches, s \in Snapshots :
       /\ CollectionSnapshotHandler(w, s)
       /\ PendingAtDelivery(w)
       /\ UNCHANGED <<inFlight, twin>>
  \/ ForEachStep /\ PendingAtEach /\ UNCHANGED <<inFlight, twin>>

PendSpec == Init /\ [][PendNext]_vars

\* a registration made by a callback is in the mapping of its key until it is
\* unregistered or replaced
C15_Registered ==
  pending # NoPending =>
    /\ MapHas(FuncOf(pending.path, pending.key), pending.id)
    /\ MapGet(FuncOf(pending.path, pending.key), pending.id) = pending.cb

\* the dispatch of the next snapshot does not return before it has invoked
\* the registered callback with that snapshot
C15_Step ==
  Finishing /\ pending.phase = "delivering" =>
    \E j \in 1..Len(invoked) :
      invoked[j] = [id |-> pending.id, cb |-> pending.cb,
                    snap |-> dispatch.snap]

\* C15 (added-during-dispatch): a callback registered from inside another
\* callback during the dispatch of a snapshot S, and neither unregistered
\* nor replaced since, is in the mapping of its key, and the dispatch of the
\* next snapshot the store delivers for that key invokes it with that
\* snapshot; this holds as well when the registration created a new entry
\* and opened a new watch because the key's last callback had been removed
\* in the same dispatch.
C15_NextSnapshot == []C15_Registered /\ [][C15_Step]_vars

\* the dispatch of the next snapshot has invoked a callback that a callback
\* registered during the dispatch before, in an entry the registration created
C15_Witness ==
  /\ pending.phase = "delivering"
  /\ pending.fresh
  /\ \E j \in 1..Len(invoked) :
       invoked[j] = [id |-> pending.id, cb |-> pending.cb,
                     snap |-> dispatch.snap]

\* ------------------------------------------------- the two paths in turn
\* the document arguments and the collection argument of the mirrored calls
MirrorPath == "x"

MirrorDocumentId == "y"

MirrorQueryPath == "x/y"

MirrorKey(path) ==
  IF path = "doc" THEN DocumentKey(MirrorPath, MirrorDocumentId)
  ELSE CollectionKey(MirrorQueryPath)

\* what is to be seen of one path: the callback mapping of its key, its open
\* watches, the closed watches with a snapshot on its way, and the dispatch
Seen(path) ==
  [func    |-> FuncOf(path, MirrorKey(path)),
   open    |-> Cardinality(WatchesOf(path, MirrorKey(path))),
   late    |-> Cardinality({w \in inFlight : w.path = path}),
   phase   |-> dispatch.phase,
   pos     |-> dispatch.pos,
   nops    |-> dispatch.nops,
   invoked |-> invoked]

\* the watch events of a step on one path, and the id an add call returns
Events(path) ==
  [opened |-> Cardinality(WatchesOfNext(path, MirrorKey(path))
                            \ WatchesOf(path, MirrorKey(path))),
   closed |-> Cardinality(WatchesOf(path, MirrorKey(path))
                            \ WatchesOfNext(path, MirrorKey(path))),
   ret    |-> op'.ret]

MirrorStart(late) == [turn |-> "doc", script |-> <<>>, at |-> 0, late |-> late]

\* the step made on the document path is recorded with what it showed; the
\* collection path takes its turn when no document dispatch is running
Recorded(kind, callback, callbackId, overwrite, snap, late) ==
  twin' =
    [turn   |-> IF dispatch'.phase = "idle" THEN "col" ELSE "doc",
     script |-> Append(twin.script,
                       [kind |-> kind, cb |-> callback, id |-> callbackId,
                        overwrite |-> overwrite, snap |-> snap, late |-> late,
                        seen |-> Seen("doc")', events |-> Events("doc")]),
     at     |-> 0,
     late   |-> twin.late \/ kind = "late"]

\* the recorded step the collection path makes next
Replayed == twin.script[twin.at + 1]

Replay ==
  twin' = IF twin.at + 1 = Len(twin.script) THEN MirrorStart(twin.late)
          ELSE [twin EXCEPT !.at = @ + 1]

\* the store still hands a snapshot to the watch a remove call closes
InFlightAfterClose(late) ==
  inFlight' = IF late THEN inFlight \cup (openWatches \ openWatches')
              ELSE inFlight

MirrorInit ==
  /\ callbacks = <<>>
  /\ collectionCallbacks = <<>>
  /\ openWatches = {}
  /\ dispatch = Idle
  /\ invoked = <<>>
  /\ op = NoOp
  /\ inFlight = {}
  /\ pending = NoPending
  /\ twin = MirrorStart(FALSE)

MirrorNext ==
  \/ /\ twin.turn = "doc"
     /\ UNCHANGED <<inFlight, pending>>
     /\ \E f \in Funcs, id \in Ids, ow \in BOOLEAN :
          /\ addCallback(MirrorPath, MirrorDocumentId, f, id, ow)
          /\ Recorded("add", f, id, ow, "-", FALSE)
  \/ /\ twin.turn = "doc"
     /\ \E id \in Ids, late \in BOOLEAN :
          /\ late => \A w \in inFlight : w.path # "doc"
          /\ removeCallback(MirrorPath, MirrorDocumentId, id)
          /\ InFlightAfterClose(late)
          /\ Recorded("remove", "-", id, FALSE, "-", late)
     /\ UNCHANGED pending
  \/ /\ twin.turn = "doc"
     /\ UNCHANGED <<inFlight, pending>>
     /\ \E w \in openWatches, s \in Snapshots :
          /\ DocumentSnapshotHandler(w, s)
          /\ Recorded("deliver", "-", "-", FALSE, s, FALSE)
  \/ /\ twin.turn = "doc"
     /\ \E w \in inFlight, s \in Snapshots :
          /\ LateDocumentSnapshotHandler(w, s)
          /\ Recorded("late", "-", "-", FALSE, s, FALSE)
     /\ UNCHANGED pending
  \/ /\ twin.turn = "doc"
     /\ UNCHANGED <<inFlight, pending>>
     /\ ForEachStep
     /\ Recorded("each", "-", "-", FALSE, "-", FALSE)
  \/ /\ twin.turn = "col"
     /\ Replayed.kind = "add"
     /\ addCollectionCallback(MirrorQueryPath, Replayed.cb, Replayed.id,
                              Replayed.overwrite)
     /\ Replay
     /\ UNCHANGED <<inFlight, pending>>
  \/ /\ twin.turn = "col"
     /\ Replayed.kind = "remove"
     /\ removeCollectionCallback(MirrorQueryPath, Replayed.id)
     /\ InFlightAfterClose(Replayed.late)
     /\ Replay
     /\ UNCHANGED pending
  \/ /\ twin.turn = "col"
     /\ Replayed.kind = "deliver"
     /\ \E w \in openWatches : CollectionSnapshotHandler(w, Replayed.snap)
     /\ Replay
     /\ UNCHANGED <<inFlight, pending>>
  \/ /\ twin.turn = "col"
     /\ Replayed.kind = "late"
     /\ \E w \in inFlight : LateCollectionSnapshotHandler(w, Replayed.snap)
     /\ Replay
     /\ UNCHANGED pending
  \/ /\ twin.turn = "col"
     /\ Replayed.kind = "each"
     /\ ForEachStep
     /\ Replay
     /\ UNCHANGED <<inFlight, pending>>

MirrorSpec == MirrorInit /\ [][MirrorNext]_vars

\* the collection path can make the step the document path made
C11_Replayable == twin.turn = "col" => ENABLED MirrorNext

\* the step the collection path makes shows what the document step showed
C11_Step ==
  twin.turn = "col" =>
    /\ Seen("col")' = Replayed.seen
    /\ Events("col") = Replayed.events

\* C11 (collection-mirrors-document): when the same sequence of register,
\* unregister and snapshot-delivery operations (same ids, overwrite flags and
\* callback behaviour, calls made by callbacks during dispatch included) is
\* applied to a document key and to a collection key, every operation can be
\* applied to both, and after every step both paths show the same watch
\* open and close events, the same returned id, the same callback mapping
\* and the same invocations.
C11_Mirror == []C11_Replayable /\ [][C11_Step]_vars

\* the same, as long as the store has handed no snapshot to the handler of
\* a closed watch
C11_MirrorInContract ==
  /\ [](~twin.late => C11_Replayable)
  /\ [][~twin.late => C11_Step]_vars

\* the collection path has repeated a dispatch in which a callback made a
\* call and which invoked two callbacks
C11_Witness ==
  /\ twin.turn = "col"
  /\ ~twin.late
  /\ twin.at >= 3
  /\ \E i \in 1..twin.at : twin.script[i].kind \in {"add", "remove"}
  /\ Len(invoked) >= 2

====
